---- MODULE Spec2Model ----
(***************************************************************************)
(* Risk-Return Analyser (src/main.py): the pipeline                        *)
(*   fetch_etf_data -> calculate_metrics -> create_visualizations ->       *)
(*   display_results, run by main() inside one try/except.                 *)
(*                                                                         *)
(* Floats are modelled as extended rationals <<n, d>>:                     *)
(*   d > 0  a finite number n/d in lowest terms,                           *)
(*   <<0,0>> NaN,  <<1,0>> +inf,  <<-1,0>> -inf,                           *)
(* with the IEEE rules for x/0 and NaN propagation that numpy/pandas use.  *)
(* A table (DataFrame) is [cols: sequence of tickers, rows: sequence of    *)
(* [date, v: ticker -> float]]; a date is the row number in the table the  *)
(* provider returned.                                                      *)
(***************************************************************************)
EXTENDS Integers, Sequences, FiniteSets, TLC

VARIABLES
    pad,            \* does this pandas build forward-fill in pct_change()
    provider,       \* [up, table]: what the market-data provider answers
    requested,      \* the ticker list handed to the loader
    prices,         \* the price table (DataFrame of adjusted closes)
    daily_returns,  \* calculate_metrics: prices.pct_change().dropna()
    metrics,        \* [called, index, rec]: the metrics DataFrame
    chart,          \* [written, rows]: output/etf_performance_comparison.png
    viz,            \* create_visualizations: "idle", "ok", "raised"
    csv,            \* [written, index]: output/etf_analysis_results.csv
    console,        \* lines printed by display_results and main's handler
    best,           \* ticker named in the best-Sharpe line, "" when none
    disp,           \* display_results: "idle", "ok", "raised"
    pc,             \* main's position
    started,        \* stages main has started, in order
    failed,         \* the stage whose exception reached main's handler
    exit_code       \* process exit status, -1 while running

vars == <<pad, provider, requested, prices, daily_returns, metrics, chart, viz, csv,
          console, best, disp, pc, started, failed, exit_code>>

\* ---------------------------------------------------------------- bounds
MaxDates == 3
MaxPrice == 2
MaxSharpe == 1

\* ------------------------------------------------------------ arithmetic
Abs(x) == IF x < 0 THEN -x ELSE x

Sign(x) == IF x < 0 THEN -1 ELSE IF x > 0 THEN 1 ELSE 0

RECURSIVE GCD(_, _)
GCD(a, b) == IF b = 0 THEN a ELSE GCD(b, a % b)

NaN == <<0, 0>>
Inf(s) == <<s, 0>>
Zero == <<0, 1>>
One == <<1, 1>>
Num(k) == <<k, 1>>

IsNaN(x) == x = NaN
IsFin(x) == x[2] > 0
IsInf(x) == x[2] = 0 /\ x[1] # 0

Frac(n, d) ==
    LET g == GCD(Abs(n), Abs(d))
        s == IF d < 0 THEN -1 ELSE 1
    IN  <<(s * n) \div g, (s * d) \div g>>

FAdd(a, b) ==
    IF IsNaN(a) \/ IsNaN(b) THEN NaN
    ELSE IF IsFin(a) /\ IsFin(b) THEN Frac(a[1] * b[2] + b[1] * a[2], a[2] * b[2])
    ELSE IF IsFin(a) THEN b
    ELSE IF IsFin(b) THEN a
    ELSE IF a = b THEN a ELSE NaN

FNeg(a) == <<-a[1], a[2]>>

FSub(a, b) == FAdd(a, FNeg(b))

FMul(a, b) ==
    IF IsNaN(a) \/ IsNaN(b) THEN NaN
    ELSE IF IsFin(a) /\ IsFin(b) THEN Frac(a[1] * b[1], a[2] * b[2])
    ELSE IF a[1] = 0 \/ b[1] = 0 THEN NaN
    ELSE Inf(Sign(a[1]) * Sign(b[1]))

FDiv(a, b) ==
    IF IsNaN(a) \/ IsNaN(b) THEN NaN
    ELSE IF IsFin(a) /\ IsFin(b) THEN
        IF b[1] = 0
        THEN (IF a[1] = 0 THEN NaN ELSE Inf(Sign(a[1])))
        ELSE Frac(a[1] * b[2], a[2] * b[1])
    ELSE IF IsInf(a) /\ IsInf(b) THEN NaN
    ELSE IF IsInf(a) THEN Inf(Sign(a[1]) * (IF b[1] < 0 THEN -1 ELSE 1))
    ELSE Zero

FLess(a, b) ==
    IF IsNaN(a) \/ IsNaN(b) THEN FALSE
    ELSE IF IsFin(a) /\ IsFin(b) THEN a[1] * b[2] < b[1] * a[2]
    ELSE IF IsInf(a) /\ IsInf(b) THEN a[1] < b[1]
    ELSE IF IsInf(a) THEN a[1] < 0
    ELSE b[1] > 0

\* ----------------------------------------------------------------- tables
Range(s) == {s[i] : i \in 1..Len(s)}

RECURSIVE SelectRows(_, _)
SelectRows(rows, keep) ==
    IF rows = <<>> THEN <<>>
    ELSE IF Head(rows).date \in keep
         THEN <<Head(rows)>> \o SelectRows(Tail(rows), keep)
         ELSE SelectRows(Tail(rows), keep)

Dates(rows) == [i \in 1..Len(rows) |-> rows[i].date]

\* DataFrame.ffill(): the last reported value at or before row i, NaN if none
RECURSIVE Ffill(_, _, _)
Ffill(rows, i, t) ==
    IF i = 0 THEN NaN
    ELSE IF ~IsNaN(rows[i].v[t]) THEN rows[i].v[t]
    ELSE Ffill(rows, i - 1, t)

\* DataFrame.pct_change(): data / data.shift(1) - 1, where data is the frame
\* itself or, in pandas builds whose default fill_method is 'pad', the
\* forward-filled frame.  Row 1 has no predecessor: shift(1) gives NaN.
PctChange(tbl, fill) ==
    LET cell(i, t) == IF fill THEN Ffill(tbl.rows, i, t) ELSE tbl.rows[i].v[t]
        prev(i, t) == IF i = 1 THEN NaN ELSE cell(i - 1, t)
    IN  [i \in 1..Len(tbl.rows) |->
            [date |-> tbl.rows[i].date,
             v |-> [t \in Range(tbl.cols) |->
                        FSub(FDiv(cell(i, t), prev(i, t)), One)]]]

\* DropNa left out: the frame is returned as it is
DropNaNone(rows, cols) == rows

\* DataFrame.dropna(): keep the rows in which no column is NaN
DropNa(rows, cols) ==
    SelectRows(rows, {rows[i].date : i \in
        {j \in 1..Len(rows) : \A t \in Range(cols) : ~IsNaN(rows[j].v[t])}})

\* line 51
DailyReturns(tbl, fill) == DropNa(PctChange(tbl, fill), tbl.cols)

RECURSIVE ColSum(_, _, _)
ColSum(rows, t, i) ==
    IF i = 0 THEN Zero ELSE FAdd(ColSum(rows, t, i - 1), rows[i].v[t])

\* Series.mean(): NaN for an empty column
Mean(rows, t) == FDiv(ColSum(rows, t, Len(rows)), Num(Len(rows)))

RECURSIVE SqDev(_, _, _, _)
SqDev(rows, t, m, i) ==
    IF i = 0 THEN Zero
    ELSE FAdd(SqDev(rows, t, m, i - 1),
              FMul(FSub(rows[i].v[t], m), FSub(rows[i].v[t], m)))

\* Series.std() squared: the sample variance (ddof = 1), NaN below two rows
Variance(rows, t) ==
    IF Len(rows) < 2 THEN NaN
    ELSE FDiv(SqDev(rows, t, Mean(rows, t), Len(rows)), Num(Len(rows) - 1))

\* line 54
trading_days == 252

\* lines 57 and 63: the sign of annual_return - risk_free_rate.  With
\* risk_free_rate = 0.02, (1 + m)^252 - 1 - 0.02 is positive exactly when
\* m > 1.02^(1/252) - 1 = 0.0000785..., which no mean of the bounded tables
\* approaches from either side.
ExcessSign(m) == IF m[1] * 1000000 >= 79 * m[2] THEN 1 ELSE -1

\* line 63: (annual_return - risk_free_rate) / annual_volatility as a float
\* division.  A zero volatility divides a non-zero excess return: an infinity
\* of its sign.  A finite quotient is kept as its sign: its magnitude needs
\* the 252nd power and the square root, which the integer model leaves out.
SharpeOf(m, vol2) ==
    IF IsNaN(m) \/ IsNaN(vol2) THEN NaN
    ELSE IF vol2 = Zero THEN FDiv(Num(ExcessSign(m)), Zero)
    ELSE Num(ExcessSign(m))

\* line 60 squared: (std * sqrt(trading_days))^2, zero or NaN exactly when the
\* volatility is
VolatilitySq(rows, t) == FMul(Variance(rows, t), Num(trading_days))

\* lines 57-70: one record per column.  AnnualReturn is kept as the mean
\* daily return m it is computed from ((1+m)^252 - 1 is increasing in m) and
\* AnnualVolatility as its square.
MetricsOf(tbl, dr) ==
    [t \in Range(tbl.cols) |->
        [AnnualReturn |-> Mean(dr, t),
         AnnualVolatility |-> VolatilitySq(dr, t),
         SharpeRatio |-> SharpeOf(Mean(dr, t), VolatilitySq(dr, t))]]

\* lines 37-74
CalculateMetrics ==
    /\ daily_returns' = DailyReturns(prices, pad)
    /\ metrics' = [called |-> TRUE, index |-> prices.cols,
                   rec |-> MetricsOf(prices, DailyReturns(prices, pad))]

\* line 90: the value the first price is normalised to
Base == 100

\* CumulativeReturns normalising to the last row, prices.iloc[-1], instead
CumulativeReturnsLast(tbl) ==
    [i \in 1..Len(tbl.rows) |->
        [date |-> tbl.rows[i].date,
         v |-> [t \in Range(tbl.cols) |->
                    FMul(FDiv(tbl.rows[i].v[t], tbl.rows[Len(tbl.rows)].v[t]),
                         Num(Base))]]]

\* line 90: (prices / prices.iloc[0]) * 100, on the rows of the price table
CumulativeReturns(tbl) ==
    [i \in 1..Len(tbl.rows) |->
        [date |-> tbl.rows[i].date,
         v |-> [t \in Range(tbl.cols) |->
                    FMul(FDiv(tbl.rows[i].v[t], tbl.rows[1].v[t]), Num(Base))]]]

\* lines 76-111.  prices.iloc[0] raises IndexError on a table without rows;
\* os.makedirs and savefig raise OSError when the output directory cannot be
\* written (ok = FALSE).  Otherwise every column is plotted and the figure is
\* saved, also when there is no column to plot.
CreateVisualizations(ok) ==
    IF Len(prices.rows) = 0 \/ ~ok
    THEN /\ viz' = "raised"
         /\ chart' = chart
    ELSE /\ viz' = "ok"
         /\ chart' = [written |-> TRUE, rows |-> CumulativeReturns(prices)]

\* f"{x:.3f}" rounds to three decimals (half to even)
Round3(x) ==
    LET n == x[1] * 1000
        q == n \div x[2]
        r == 2 * (n - q * x[2])
    IN  IF r > x[2] \/ (r = x[2] /\ q % 2 = 1) THEN q + 1 ELSE q

\* line 127: f"{x:.3f}" of a float
FormatSharpe(x) ==
    IF IsNaN(x) THEN [s |-> "nan", x |-> NaN]
    ELSE IF IsInf(x) THEN [s |-> IF x[1] > 0 THEN "inf" ELSE "-inf", x |-> x]
    ELSE [s |-> ".3f", x |-> Frac(Round3(x), 1000)]

\* lines 125-126: f"{x:.2%}" of a float; the digits of a finite value are those
\* of the annualised figure, which the model keeps by what it is computed from
FormatPct(x) ==
    IF IsNaN(x) THEN [s |-> "nan%", x |-> NaN]
    ELSE IF IsInf(x) THEN [s |-> IF x[1] > 0 THEN "inf%" ELSE "-inf%", x |-> x]
    ELSE [s |-> ".2%", x |-> x]

Blank == [s |-> "", x |-> NaN]

Line(kind, ticker, ret, vol, sharpe) ==
    [kind |-> kind, ticker |-> ticker, ret |-> ret, vol |-> vol, sharpe |-> sharpe]

\* lines 124-129: the formatted table, one line per row of metrics
FormattedTable(m) ==
    [i \in 1..Len(m.index) |->
        Line("row", m.index[i],
             FormatPct(m.rec[m.index[i]].AnnualReturn),
             FormatPct(m.rec[m.index[i]].AnnualVolatility),
             FormatSharpe(m.rec[m.index[i]].SharpeRatio))]

\* line 132: Series.idxmax() skips NaN and returns the label of the first
\* largest value; with nothing but NaN (or no rows) it raises, or yields a
\* NaN label that metrics.loc rejects on line 133: "" stands for both.
IdxMax(m) ==
    LET S(i) == m.rec[m.index[i]].SharpeRatio
        cand == {i \in 1..Len(m.index) : ~IsNaN(S(i))}
        top == {i \in cand : \A j \in cand : ~FLess(S(i), S(j))}
    IN  IF cand = {} THEN ""
        ELSE m.index[CHOOSE i \in top : \A j \in top : i <= j]

\* lines 113-138.  to_csv (and os.makedirs) raise OSError when the file cannot
\* be written (ok = FALSE).
DisplayResults(ok) ==
    LET shown == console \o <<Line("header", "", Blank, Blank, Blank)>>
                     \o FormattedTable(metrics)
        b == IdxMax(metrics)
        bestline == Line("best", b, Blank, Blank,
                         FormatSharpe(metrics.rec[b].SharpeRatio))
    IN  IF b = ""
        THEN /\ disp' = "raised"
             /\ console' = shown
             /\ UNCHANGED <<best, csv>>
        ELSE /\ best' = b
             /\ IF ok
                THEN /\ disp' = "ok"
                     /\ csv' = [written |-> TRUE, index |-> metrics.index]
                     /\ console' = shown \o <<bestline,
                                       Line("saved", "", Blank, Blank, Blank)>>
                ELSE /\ disp' = "raised"
                     /\ console' = shown \o <<bestline>>
                     /\ csv' = csv

\* ------------------------------------------------------------------ inputs
\* line 148
etf_tickers == <<"SPY", "QQQ", "VTI">>

Perms(seq) ==
    {p \in [1..Len(seq) -> Range(seq)] : \A i, j \in 1..Len(seq) : p[i] = p[j] => i = j}

Prefixes(seq) == {SubSeq(seq, 1, k) : k \in 0..Len(seq)}

\* the table with the given columns whose row i, dated i, holds the cells f[i]
Table(cols, f) ==
    [cols |-> cols,
     rows |-> [i \in DOMAIN f |-> [date |-> i, v |-> f[i]]]]

\* the cell contents of the tables with the given columns and n dates
Grids(cols, n, cells) == [1..n -> [Range(cols) -> cells]]

\* an adjusted close, or NaN where the provider reports none
Cells(maxp) == {NaN} \cup {Num(p) : p \in 1..maxp}

NoTable == [cols |-> <<>>, rows |-> <<>>]
NoMetrics == [called |-> FALSE, index |-> <<>>, rec |-> <<>>]
NoChart == [written |-> FALSE, rows |-> <<>>]
NoCsv == [written |-> FALSE, index |-> <<>>]

\* ------------------------------------------------------------------- main
\* The provider is unreachable, or answers with one column per requested
\* ticker in an order of its own, NaN where a ticker has no close on a date;
\* main's provider quotes every close at the same level.
Init ==
    /\ pad \in BOOLEAN
    /\ requested = etf_tickers
    /\ \/ provider = [up |-> FALSE, table |-> NoTable]
       \/ \E cols \in Perms(etf_tickers), n \in 0..MaxDates :
            \E f \in Grids(cols, n, Cells(1)) :
                provider = [up |-> TRUE, table |-> Table(cols, f)]
    /\ prices = NoTable
    /\ daily_returns = <<>>
    /\ metrics = NoMetrics
    /\ chart = NoChart
    /\ viz = "idle"
    /\ csv = NoCsv
    /\ console = <<>>
    /\ best = ""
    /\ disp = "idle"
    /\ pc = "start"
    /\ started = <<>>
    /\ failed = "none"
    /\ exit_code = -1

\* lines 152, 16-35.  The provider either fails (the download or the
\* ['Adj Close'] lookup raises) or returns its table.  Line 33 reads
\* data.index[0], which raises IndexError on a table without rows.
Fetch ==
    /\ pc = "start"
    /\ started' = Append(started, "fetch")
    /\ IF provider.up /\ Len(provider.table.rows) > 0
       THEN /\ prices' = provider.table
            /\ pc' = "fetched"
            /\ failed' = failed
       ELSE /\ prices' = prices
            /\ pc' = "handler"
            /\ failed' = "fetch"
    /\ UNCHANGED <<pad, provider, requested, daily_returns, metrics, chart, viz,
                   csv, console, best, disp, exit_code>>

\* line 155
Calculate ==
    /\ pc = "fetched"
    /\ started' = Append(started, "metrics")
    /\ CalculateMetrics
    /\ pc' = "calculated"
    /\ UNCHANGED <<pad, provider, requested, prices, chart, viz, csv, console, best,
                   disp, failed, exit_code>>

\* line 158, up to savefig (line 108)
RenderChart ==
    /\ pc = "calculated"
    /\ started' = Append(started, "chart")
    /\ \E ok \in BOOLEAN : CreateVisualizations(ok)
    /\ pc' = IF viz' = "ok" THEN "showing" ELSE "handler"
    /\ failed' = IF viz' = "ok" THEN failed ELSE "chart"
    /\ UNCHANGED <<pad, provider, requested, prices, daily_returns, metrics, csv,
                   console, best, disp, exit_code>>

\* line 111: plt.show() returns (at once, or when the window is closed)
ShowReturns ==
    /\ pc = "showing"
    /\ pc' = "charted"
    /\ UNCHANGED <<pad, provider, requested, prices, daily_returns, metrics, chart, viz,
                   csv, console, best, disp, started, failed, exit_code>>

\* line 161
Display ==
    /\ pc = "charted"
    /\ started' = Append(started, "table")
    /\ \E ok \in BOOLEAN : DisplayResults(ok)
    /\ pc' = IF disp' = "ok" THEN "displayed" ELSE "handler"
    /\ failed' = IF disp' = "ok" THEN failed ELSE "table"
    /\ UNCHANGED <<pad, provider, requested, prices, daily_returns, metrics, chart, viz,
                   exit_code>>

\* line 163, then main returns and the interpreter exits with status 0
Complete ==
    /\ pc = "displayed"
    /\ console' = console \o <<Line("complete", "", Blank, Blank, Blank)>>
    /\ pc' = "done"
    /\ exit_code' = 0
    /\ UNCHANGED <<pad, provider, requested, prices, daily_returns, metrics, chart, viz,
                   csv, best, disp, started, failed>>

\* HandleError swallowing the error, main going on with the stage after the
\* failed one, instead
HandleErrorResume ==
    /\ pc = "handler"
    /\ console' = console \o <<Line("error", "", Blank, Blank, Blank),
                               Line("hint", "", Blank, Blank, Blank)>>
    /\ pc' = IF failed = "fetch" THEN "fetched"
             ELSE IF failed = "chart" THEN "charted" ELSE "done"
    /\ exit_code' = IF failed = "table" THEN 0 ELSE exit_code
    /\ UNCHANGED <<pad, provider, requested, prices, daily_returns, metrics, chart, viz,
                   csv, best, disp, started, failed>>

\* lines 165-167: the handler prints the error and a hint; main then returns
\* normally, so the interpreter exits with status 0
HandleError ==
    /\ pc = "handler"
    /\ console' = console \o <<Line("error", "", Blank, Blank, Blank),
                               Line("hint", "", Blank, Blank, Blank)>>
    /\ pc' = "done"
    /\ exit_code' = 0
    /\ UNCHANGED <<pad, provider, requested, prices, daily_returns, metrics, chart, viz,
                   csv, best, disp, started, failed>>

Next ==
    \/ Fetch
    \/ Calculate
    \/ RenderChart
    \/ ShowReturns
    \/ Display
    \/ Complete
    \/ HandleError

Spec == Init /\ [][Next]_vars

\* main is sequential code: wherever it stands, except inside the blocking
\* plt.show() and at its end, control moves on to another position.
Positions ==
    {"start", "fetched", "calculated", "showing", "charted", "displayed",
     "handler", "done"}

Advance == pc \notin {"showing", "done"} /\ pc' \in Positions \ {pc}

FairSpec == Spec /\ WF_pc(Advance)

\* ---------------------------------------------- the functions on their own
\* calculate_metrics and create_visualizations called on any price table of
\* at most two tickers, with or without columns and rows
InitCalc ==
    /\ pad \in BOOLEAN
    /\ requested = <<"X", "Y">>
    /\ provider = [up |-> FALSE, table |-> NoTable]
    /\ \E cols \in Prefixes(<<"X", "Y">>), n \in 0..MaxDates :
        \E f \in Grids(cols, n, Cells(MaxPrice)) : prices = Table(cols, f)
    /\ daily_returns = <<>>
    /\ metrics = NoMetrics
    /\ chart = NoChart
    /\ viz = "idle"
    /\ csv = NoCsv
    /\ console = <<>>
    /\ best = ""
    /\ disp = "idle"
    /\ pc = "call"
    /\ started = <<>>
    /\ failed = "none"
    /\ exit_code = -1

CalcCall ==
    /\ pc = "call"
    /\ ~metrics.called
    /\ CalculateMetrics
    /\ UNCHANGED <<pad, provider, requested, prices, chart, viz, csv, console, best,
                   disp, pc, started, failed, exit_code>>

VizCall ==
    /\ pc = "call"
    /\ metrics.called
    /\ viz = "idle"
    /\ \E ok \in BOOLEAN : CreateVisualizations(ok)
    /\ UNCHANGED <<pad, provider, requested, prices, daily_returns, metrics, csv,
                   console, best, disp, pc, started, failed, exit_code>>

NextCalc == CalcCall \/ VizCall

SpecCalc == InitCalc /\ [][NextCalc]_vars

\* display_results called on any metrics table of three tickers, its rows in
\* any order, its Sharpe column holding any floats
SharpeInputs == {NaN, Inf(1), Inf(-1)} \cup {Num(k) : k \in (-MaxSharpe)..MaxSharpe}

RecordWith(s) ==
    [AnnualReturn |-> IF IsNaN(s) THEN NaN ELSE Zero,
     AnnualVolatility |-> IF IsNaN(s) THEN NaN ELSE IF IsInf(s) THEN Zero ELSE One,
     SharpeRatio |-> s]

InitDisplay ==
    /\ pad = FALSE
    /\ requested = <<"A", "B", "C">>
    /\ provider = [up |-> FALSE, table |-> NoTable]
    /\ prices = NoTable
    /\ daily_returns = <<>>
    /\ \E ix \in Perms(<<"A", "B", "C">>) :
        \E f \in [{"A", "B", "C"} -> SharpeInputs] :
            metrics = [called |-> TRUE, index |-> ix,
                       rec |-> [t \in {"A", "B", "C"} |-> RecordWith(f[t])]]
    /\ chart = NoChart
    /\ viz = "idle"
    /\ csv = NoCsv
    /\ console = <<>>
    /\ best = ""
    /\ disp = "idle"
    /\ pc = "call"
    /\ started = <<>>
    /\ failed = "none"
    /\ exit_code = -1

DisplayCall ==
    /\ pc = "call"
    /\ disp = "idle"
    /\ \E ok \in BOOLEAN : DisplayResults(ok)
    /\ UNCHANGED <<pad, provider, requested, prices, daily_returns, metrics, chart, viz,
                   pc, started, failed, exit_code>>

NextDisplay == DisplayCall

SpecDisplay == InitDisplay /\ [][NextDisplay]_vars

\* ------------------------------------------------------------------ claims
Stages == <<"fetch", "metrics", "chart", "table">>

ErrorLines == Cardinality({i \in 1..Len(console) : console[i].kind = "error"})

\* every date of the table has a price for every ticker
FullyCovered(tbl) ==
    \A i \in 1..Len(tbl.rows) : \A t \in Range(tbl.cols) : ~IsNaN(tbl.rows[i].v[t])

\* the rows of the table in which every ticker has a price
Covered(tbl) ==
    SelectRows(tbl.rows, {tbl.rows[i].date : i \in
        {j \in 1..Len(tbl.rows) :
            \A t \in Range(tbl.cols) : ~IsNaN(tbl.rows[j].v[t])}})

\* the returns between consecutive dates of the fully covered table
AlignedReturns(tbl) ==
    LET a == Covered(tbl)
    IN  [k \in 1..(Len(a) - 1) |->
            [date |-> a[k + 1].date,
             v |-> [t \in Range(tbl.cols) |->
                        FDiv(FSub(a[k + 1].v[t], a[k].v[t]), a[k].v[t])]]]

\* the product of (1 + return) over the returns dated up to d
RECURSIVE RunningProduct(_, _, _, _)
RunningProduct(dr, t, d, k) ==
    IF k = 0 THEN One
    ELSE IF dr[k].date <= d
         THEN FMul(RunningProduct(dr, t, d, k - 1), FAdd(One, dr[k].v[t]))
         ELSE RunningProduct(dr, t, d, k - 1)

Sharpe(t) == metrics.rec[t].SharpeRatio

PosIn(seq, x) == CHOOSE i \in 1..Len(seq) : seq[i] = x

\* C1: a run in which a stage failed ends with neither the chart image nor
\* the metrics CSV written.
C1_NoPartialOutput ==
    (pc = "done" /\ failed # "none") => (~chart.written /\ ~csv.written)

\* C2: a run in which a stage raised ends with exactly one error message and
\* a non-zero exit code; a run in which every stage succeeded ends with exit
\* code 0.
C2_ExitCode ==
    pc = "done" =>
        /\ failed # "none" => (ErrorLines = 1 /\ exit_code # 0)
        /\ failed = "none" => exit_code = 0

\* C3: for a price table with at least 2 dates (every date priced for every
\* ticker), every ticker's Sharpe ratio is NaN exactly when its volatility is
\* 0, and a finite number whenever its volatility is not 0.
C3_SharpeSentinel ==
    (metrics.called /\ FullyCovered(prices) /\ Len(prices.rows) >= 2) =>
        \A t \in Range(metrics.index) :
            /\ IsNaN(Sharpe(t)) <=> metrics.rec[t].AnnualVolatility = Zero
            /\ metrics.rec[t].AnnualVolatility # Zero => IsFin(Sharpe(t))

\* C4: the ticker display_results reports as best has a defined (finite)
\* Sharpe ratio, the largest among the defined ones, and is the first of the
\* tickers with that ratio in the order the tickers were requested.
C4_BestSharpe ==
    (disp # "idle" /\ best # "") =>
        /\ IsFin(Sharpe(best))
        /\ \A t \in Range(metrics.index) :
            IsFin(Sharpe(t)) =>
                /\ ~FLess(Sharpe(best), Sharpe(t))
                /\ Sharpe(t) = Sharpe(best) =>
                       PosIn(requested, best) <= PosIn(requested, t)

\* C5: the daily returns are those between consecutive dates of the fully
\* covered table, and no date on which a ticker has no price is on the chart.
C5_AlignedBeforeReturns ==
    (metrics.called /\ prices.cols # <<>>) =>
        /\ daily_returns = AlignedReturns(prices)
        /\ chart.written => Dates(chart.rows) = Dates(Covered(prices))

\* C6: display_results shows every undefined Sharpe ratio as "N/A"; it prints
\* no nan and no infinity, the best-Sharpe line included, and does not fail
\* before that line.
C6_UndefinedShownAsNA ==
    disp # "idle" =>
        /\ \A i \in 1..Len(console) :
            /\ console[i].sharpe.s \notin {"nan", "inf", "-inf"}
            /\ (console[i].kind = "row" /\ ~IsFin(Sharpe(console[i].ticker)))
                   => console[i].sharpe.s = "N/A"
        /\ \E i \in 1..Len(console) : console[i].kind = "best"

\* C7: create_visualizations called with no tickers or no dates raises and
\* writes no chart image.
C7_EmptyChartRejected ==
    (viz # "idle" /\ (prices.cols = <<>> \/ prices.rows = <<>>)) =>
        (viz = "raised" /\ ~chart.written)

\* C8: the charted series lies on the date axis of the daily returns (the
\* first price date is not on it) and at each date is Base times the running
\* product of (1 + daily return).
C8_GrowthOnReturnAxis ==
    (chart.written /\ prices.cols # <<>>) =>
        /\ Dates(chart.rows) = Dates(daily_returns)
        /\ \A i \in 1..Len(chart.rows) : \A t \in Range(prices.cols) :
            chart.rows[i].v[t] =
                FMul(Num(Base), RunningProduct(daily_returns, t, chart.rows[i].date,
                                               Len(daily_returns)))

\* C8 as amended: for a table in which every date has a price for every
\* ticker, the charted series lies on the date axis of the prices, is Base at
\* the first price date, and at each later date is Base times the running
\* product of (1 + daily return) over the returns up to that date.
C8_GrowthOnPriceAxis ==
    (chart.written /\ prices.cols # <<>> /\ FullyCovered(prices)) =>
        /\ Dates(chart.rows) = Dates(prices.rows)
        /\ \A t \in Range(prices.cols) : chart.rows[1].v[t] = Num(Base)
        /\ \A i \in 1..Len(chart.rows) : \A t \in Range(prices.cols) :
            chart.rows[i].v[t] =
                FMul(Num(Base), RunningProduct(daily_returns, t, chart.rows[i].date,
                                               Len(daily_returns)))

C8_Witness ==
    /\ chart.written
    /\ FullyCovered(prices)
    /\ Len(prices.cols) = 2
    /\ Len(prices.rows) = MaxDates
    /\ \E i \in 1..Len(daily_returns) : \E t \in Range(prices.cols) :
        daily_returns[i].v[t] # Zero

\* C9: for a price table with at least 2 dates (every date priced for every
\* ticker), the daily returns have one row fewer than the prices: only the
\* first date is dropped.
C9_OneReturnFewer ==
    (metrics.called /\ prices.cols # <<>> /\ FullyCovered(prices)
        /\ Len(prices.rows) >= 2) =>
        /\ Len(daily_returns) = Len(prices.rows) - 1
        /\ Dates(daily_returns) = Tail(Dates(prices.rows))

C9_Witness ==
    /\ metrics.called
    /\ FullyCovered(prices)
    /\ Len(prices.cols) = 2
    /\ Len(prices.rows) = MaxDates
    /\ Len(daily_returns) = MaxDates - 1

\* C10: the stages start in the order fetch, metrics, chart, table, each at
\* most once; no stage starts after a failure; after a failure the run
\* terminates.
C10_StageOrder ==
    /\ [](Len(started) <= Len(Stages) /\ started = SubSeq(Stages, 1, Len(started)))
    /\ [][failed # "none" => started' = started]_vars
    /\ [](failed # "none" => <>(pc = "done"))

C10_Witness ==
    /\ pc = "done"
    /\ failed = "chart"
    /\ started = SubSeq(Stages, 1, 3)

====
